---- MODULE Spec2Model ----
(***************************************************************************)
(* Model of the upsert script src/app.py (Streamlit: upload a file and     *)
(* upsert it into a Google Sheets worksheet).                              *)
(*                                                                         *)
(* One run of the script is: step 7 (lines 221-305), the dry-run           *)
(* reconciliation of the uploaded records df_new against the worksheet;    *)
(* then, when the button is pressed, step 8 (lines 324-403): the insert    *)
(* batch, the row-by-row updates, the audit log, the summary and           *)
(* st.experimental_rerun(), which starts the next run on the same upload.  *)
(*                                                                         *)
(* Text is a sequence of one-character strings, so that str.strip() is     *)
(* computed and not assumed.  A value of df_new is a tagged scalar: a      *)
(* string, an integer or NaN (a missing cell).                             *)
(***************************************************************************)
EXTENDS Integers, Sequences, FiniteSets, TLC

VARIABLES
    sheet,               \* the target worksheet: its rows, row 1 the header
    log_sheet,           \* rows appended to the "__update_log__" worksheet
    df_new,              \* the uploaded records, in file order
    new_cols,            \* df_new.columns
    key,                 \* matching_col
    cols_to_sync,        \* the multiselect's columns
    log_toggle,          \* the log checkbox as this run reads it at line 383
    pc,                  \* where the script is
    halt,                \* why the run ended without an outcome
    run,                 \* number of the current run of the script
    clicks,              \* times the button was pressed
    raw,                 \* ws.get_all_values() of this run
    existing_key_to_row, \* the key index: set of <<key text, row number>>
    df_to_insert,        \* the Insert Set
    update_rows,         \* the Update Set
    unchanged_count,
    added,
    updated,
    errors,
    upd_i,               \* position of the update loop of step 8b
    writes,              \* history: store calls attempted in this run
    prev                 \* history: what the previous run computed and did

vars == <<sheet, log_sheet, df_new, new_cols, key, cols_to_sync, log_toggle,
          pc, halt, run, clicks, raw, existing_key_to_row, df_to_insert,
          update_rows, unchanged_count, added, updated, errors, upd_i,
          writes, prev>>

inputs == <<df_new, new_cols, key, cols_to_sync, log_toggle>>

outcome == <<raw, existing_key_to_row, df_to_insert, update_rows,
             unchanged_count>>

counters == <<added, updated, errors, upd_i>>

----------------------------------------------------------------------------
(* Text and scalar values                                                  *)

EmptyText == <<>>

SP == " "

RECURSIVE LStrip(_)
LStrip(s) ==
    IF s # <<>> /\ Head(s) = SP THEN LStrip(Tail(s)) ELSE s

RECURSIVE RStrip(_)
RStrip(s) ==
    IF s # <<>> /\ s[Len(s)] = SP THEN RStrip(SubSeq(s, 1, Len(s) - 1)) ELSE s

\* str.strip()
Strip(s) == RStrip(LStrip(s))

Str(s) == [tag |-> "str", s |-> s]

Num(n) == [tag |-> "num", n |-> n]

NaN == [tag |-> "nan"]

\* pd.isna(v)
IsNa(v) == v.tag = "nan"

Digit(d) == CASE d = 0 -> "0" [] d = 1 -> "1" [] d = 2 -> "2" [] d = 3 -> "3"
              [] d = 4 -> "4" [] d = 5 -> "5" [] d = 6 -> "6" [] d = 7 -> "7"
              [] d = 8 -> "8" [] d = 9 -> "9"

RECURSIVE Digits(_)
Digits(n) == IF n < 10 THEN <<Digit(n)>> ELSE Append(Digits(n \div 10), Digit(n % 10))

\* str(v): a missing value prints as "nan"
ToStr(v) ==
    CASE v.tag = "str" -> v.s
      [] v.tag = "num" -> Digits(v.n)
      [] v.tag = "nan" -> <<"n", "a", "n">>

\* sval_new of line 290
SvalNew(v) == IF IsNa(v) THEN EmptyText ELSE Strip(ToStr(v))

\* df[key].astype(str).str.strip() of lines 235-236, for one record
MatchKey(rec, k) == Strip(ToStr(rec[k]))

----------------------------------------------------------------------------
(* Step 7: the dry-run reconciliation, lines 221-305.  Positions in a row  *)
(* are 1-based here (Python's col_idx + 1); worksheet row numbers are      *)
(* 1-based in the code too.                                                *)

Range(s) == {s[i] : i \in 1..Len(s)}

Max(S) == CHOOSE x \in S : \A y \in S : y <= x

\* header_map of line 247: a repeated name keeps its last position
HeaderMap(header) ==
    [c \in Range(header) |-> Max({i \in 1..Len(header) : header[i] = c})]

\* the key cell of one raw row, line 255
KeyCell(row, kcol) == IF kcol <= Len(row) THEN Strip(row[kcol]) ELSE EmptyText

NoIndex == [k \in {} |-> 0]

\* mutant of IndexPut: the first row found for a key keeps its entry
IndexPutFirstWins(index, val, r_idx) ==
    IF val \in DOMAIN index THEN index
    ELSE [k \in DOMAIN index \cup {val} |-> IF k = val THEN r_idx ELSE index[k]]

\* index[val] = r_idx of line 257
IndexPut(index, val, r_idx) ==
    [k \in DOMAIN index \cup {val} |-> IF k = val THEN r_idx ELSE index[k]]

\* the loop of lines 250-257 from row r_idx on
RECURSIVE IndexRows(_, _, _, _)
IndexRows(rows, kcol, r_idx, index) ==
    IF r_idx > Len(rows) THEN index
    ELSE LET val == KeyCell(rows[r_idx], kcol)
         IN  IndexRows(rows, kcol, r_idx + 1,
                       IF val # EmptyText THEN IndexPut(index, val, r_idx)
                       ELSE index)

\* existing_key_to_row, lines 249-257
ExistingKeyToRow(rows, k) ==
    LET header_map == HeaderMap(rows[1])
    IN  IF k \in DOMAIN header_map
        THEN IndexRows(rows, header_map[k], 2, NoIndex)
        ELSE NoIndex

\* new_keys of line 260: dropna() finds nothing to drop, the keys are text
NewKeys(df, k) == {MatchKey(df[i], k) : i \in 1..Len(df)}

\* to_insert_keys, line 263
ToInsertKeys(df, k, index) == NewKeys(df, k) \ DOMAIN index

\* to_update_keys, line 264
ToUpdateKeys(df, k, index) == NewKeys(df, k) \cap DOMAIN index

Restrict(rec, cols) == [c \in cols |-> rec[c]]

\* df_to_insert of line 267: the records to insert, cut to cols_to_sync
\* (src: the record's place in df_new, kept for the properties only)
RECURSIVE DfToInsert(_, _, _, _, _)
DfToInsert(df, k, sync, index, i) ==
    IF i > Len(df) THEN <<>>
    ELSE LET rest == DfToInsert(df, k, sync, index, i + 1)
         IN  IF MatchKey(df[i], k) \in ToInsertKeys(df, k, index)
             THEN <<[rec |-> Restrict(df[i], sync), src |-> i]>> \o rest
             ELSE rest

\* mutant of ChangedCols: an empty new value counts as a change too
ChangedColsBlanking(current, rec, header_map, sync) ==
    {c \in sync \cap DOMAIN header_map :
        LET val_current == IF header_map[c] <= Len(current)
                           THEN current[header_map[c]] ELSE EmptyText
        IN  SvalNew(rec[c]) # Strip(val_current)}

\* the synced columns whose cell line 292 finds changed
ChangedCols(current, rec, header_map, sync) ==
    {c \in sync \cap DOMAIN header_map :
        LET val_current == IF header_map[c] <= Len(current)
                           THEN current[header_map[c]] ELSE EmptyText
        IN  /\ SvalNew(rec[c]) # EmptyText
            /\ SvalNew(rec[c]) # Strip(val_current)}

Pad(row, n) ==
    IF Len(row) < n THEN row \o [i \in 1..(n - Len(row)) |-> EmptyText] ELSE row

\* lines 280-303 for one record: the rebuilt row, whether it changed, and
\* whether line 293 assigned past the end of the copied row (IndexError)
UpdatedRow(current, rec, header, sync) ==
    LET header_map == HeaderMap(header)
        changed    == ChangedCols(current, rec, header_map, sync)
        written    == [i \in 1..Len(current) |->
                         IF \E c \in changed : header_map[c] = i
                         THEN SvalNew(rec[CHOOSE c \in changed : header_map[c] = i])
                         ELSE current[i]]
    IN  [row     |-> IF changed # {} THEN Pad(written, Len(header)) ELSE written,
         changed |-> changed # {},
         raised  |-> \E c \in changed : header_map[c] > Len(current)]

\* the loop of lines 274-305 from record i on
RECURSIVE UpdateLoop(_, _, _, _, _, _)
UpdateLoop(rows, df, k, sync, index, i) ==
    IF i > Len(df) THEN [rows |-> <<>>, unchanged |-> 0, raised |-> FALSE]
    ELSE LET mk == MatchKey(df[i], k)
         IN  IF mk \notin ToUpdateKeys(df, k, index)
             THEN UpdateLoop(rows, df, k, sync, index, i + 1)
             ELSE LET sheet_row_num == index[mk]
                      u    == UpdatedRow(rows[sheet_row_num], df[i], rows[1], sync)
                      rest == UpdateLoop(rows, df, k, sync, index, i + 1)
                  IN  IF u.raised
                      THEN [rows |-> <<>>, unchanged |-> 0, raised |-> TRUE]
                      ELSE IF u.changed
                      THEN [rest EXCEPT !.rows =
                              <<[rownum |-> sheet_row_num, row |-> u.row,
                                 src |-> i]>> \o rest.rows]
                      ELSE [rest EXCEPT !.unchanged = rest.unchanged + 1]

\* df_existing of line 196: get_all_records() gives one record per row
\* below the header, so the frame is empty unless there is such a row
ExistingEmpty(rows) == Len(rows) <= 1

\* df_existing.columns before line 235
ExistingColumns(rows, cols) ==
    IF ExistingEmpty(rows) THEN cols ELSE Range(rows[1])

----------------------------------------------------------------------------
(* Step 8: the apply phase, lines 324-403, and the worksheet it writes.    *)

EmptyCell == Str(EmptyText)

\* rowvals of lines 335-338 for one record of df_to_insert
InsertRowValues(rec, header) ==
    LET header_map == HeaderMap(header)
    IN  [i \in 1..Len(header) |->
           IF \E c \in DOMAIN rec \cap DOMAIN header_map : header_map[c] = i
           THEN LET col == CHOOSE c \in DOMAIN rec \cap DOMAIN header_map :
                                header_map[c] = i
                IN  IF IsNa(rec[col]) THEN EmptyCell ELSE rec[col]
           ELSE EmptyCell]

\* insert_rows_values of lines 332-339
InsertRows(df, header) ==
    [i \in 1..Len(df) |-> InsertRowValues(df[i].rec, header)]

\* df_to_insert.empty of line 330: no row, or no column
DfEmpty(df, sync) == Len(df) = 0 \/ sync = {}

\* the worksheet shows an entered value as its text
CellText(v) == IF IsNa(v) THEN EmptyText ELSE ToStr(v)

RowText(rowvals) == [i \in 1..Len(rowvals) |-> CellText(rowvals[i])]

\* ws.append_rows(values): the rows go below the last row
AppendRows(ws, rowsvals) ==
    ws \o [i \in 1..Len(rowsvals) |-> RowText(rowsvals[i])]

\* ws.update("A{r}:{last}{r}", [full_row]): the first len(full_row) cells of
\* row r are overwritten, lines 363-365
UpdateRange(ws, rownum, full_row) ==
    [ws EXCEPT ![rownum] =
        [i \in 1..(IF Len(@) > Len(full_row) THEN Len(@) ELSE Len(full_row)) |->
            IF i <= Len(full_row) THEN full_row[i] ELSE @[i]]]

\* the row appended to "__update_log__", line 392
LogRow == [sheet |-> "target", matching_col |-> key, added |-> added,
           updated |-> updated, errors |-> errors,
           rows_insert |-> Len(df_to_insert)]

NoPrev == [ran |-> FALSE, applied |-> FALSE]

----------------------------------------------------------------------------
(* Bounds and the inputs the runs are drawn from                           *)

\* data rows below the header of the initial worksheet
MaxRows == 2

\* records of the upload
MaxNew == 2

\* times the button is pressed
MaxClicks == 1

ID == <<"I", "D">>

NAME == <<"N", "a", "m", "e">>

SCORE == <<"S", "c", "o", "r", "e">>

T1 == <<"1">>

T2 == <<"2">>

Headers == {<<ID, NAME>>, <<NAME>>}

\* raw rows under a header: as wide as the header, shorter (the reader left
\* the empty trailing cells out) or longer (a cell under no header name);
\* key cells are plain, padded or blank, name cells empty or padded
RawRows(header) ==
    IF header = <<ID, NAME>>
    THEN {<<<<SP, "2">>, <<"b", SP>>>>,
          <<T1>>,
          <<EmptyText, <<"b", SP>>>>,
          <<T1, <<"b", SP>>, <<"x">>>>}
    ELSE {<<<<"b", SP>>>>, <<>>}

\* an uploaded record over the given columns
Record(cols, id, name) == [c \in cols |-> IF c = ID THEN id ELSE name]

\* uploaded records: a text key, a numeric key and a blank key, each with a
\* padded new name
Records(cols) ==
    {Record(cols, Str(T1), Str(<<SP, "c">>)),
     Record(cols, Num(2), Str(<<SP, "c">>)),
     Record(cols, Str(<<SP>>), Str(<<SP, "c">>))}

BoundedSeq(S, n) == UNION {[1..m -> S] : m \in 0..n}

Uploads(cols) == BoundedSeq(Records(cols), MaxNew) \ {<<>>}

\* nothing computed, nothing written yet
Fresh ==
    /\ raw = <<>>
    /\ existing_key_to_row = NoIndex
    /\ df_to_insert = <<>>
    /\ update_rows = <<>>
    /\ unchanged_count = 0
    /\ added = 0
    /\ updated = 0
    /\ errors = <<>>
    /\ upd_i = 1
    /\ writes = <<>>

Start ==
    /\ log_sheet = <<>>
    /\ log_toggle = TRUE
    /\ pc = "start"
    /\ halt = "none"
    /\ run = 1
    /\ clicks = 0
    /\ prev = NoPrev
    /\ Fresh

\* a worksheet and an upload within the bounds; the columns to sync are the
\* multiselect's default (every column of the upload) or none
InitAny ==
    /\ \/ sheet = <<>>
       \/ \E header \in Headers :
            \E rows \in BoundedSeq(RawRows(header), MaxRows) :
                sheet = <<header>> \o rows
    /\ new_cols \in {{ID, NAME}, {NAME}}
    /\ df_new \in Uploads(new_cols)
    /\ key = ID
    /\ cols_to_sync \in {{}, new_cols}

A_Header == <<ID, NAME, SCORE>>

A_Ann == <<"A", "n", "n">>

A_Bob == <<"B", "o", "b">>

A_Cara == <<"C", "a", "r", "a">>

\* the target of Scenarios A and B of the specification
A_Sheet == <<A_Header, <<T1, A_Ann, <<"1", "0">>>>, <<T2, A_Bob, <<"2", "0">>>>>>

A_Record(id, name, score) ==
    [c \in {ID, NAME, SCORE} |->
        CASE c = ID -> id [] c = NAME -> name [] c = SCORE -> score]

\* the upload of Scenario A, its values text as the specification gives them
A_Upload == <<A_Record(Str(T2), Str(A_Bob), Str(<<"2", "5">>)),
              A_Record(Str(<<"3">>), Str(A_Cara), Str(<<"3", "0">>))>>

\* the records of Scenarios A and B, one with a missing name and one with a
\* missing key
A_Records == {A_Upload[1], A_Upload[2],
              A_Record(Str(T1), Str(A_Ann), NaN),
              A_Record(Str(T2), NaN, Str(<<"2", "5">>)),
              A_Record(NaN, Str(A_Cara), Str(<<"3", "0">>))}

\* uploads of the scenarios' records to the scenarios' target
InitScenario ==
    /\ sheet = A_Sheet
    /\ new_cols = {ID, NAME, SCORE}
    /\ df_new \in BoundedSeq(A_Records, MaxNew) \ {<<>>}
    /\ key = ID
    /\ cols_to_sync \in {{NAME, SCORE}, {ID, NAME, SCORE}, {SCORE}}

Init == Start /\ (InitAny \/ InitScenario)

----------------------------------------------------------------------------
(* The script as a state machine                                           *)

\* lines 226-228: the key is no column of the upload
StopKeyMissing ==
    /\ pc = "start"
    /\ key \notin new_cols
    /\ pc' = "stopped"
    /\ halt' = "key_missing"
    /\ UNCHANGED <<sheet, log_sheet, inputs, run, clicks, outcome, counters,
                   writes, prev>>

\* line 235: df_existing[key] raises KeyError, nothing catches it
RaiseKeyError ==
    /\ pc = "start"
    /\ key \in new_cols
    /\ key \notin ExistingColumns(sheet, new_cols)
    /\ pc' = "crashed"
    /\ halt' = "key_error"
    /\ UNCHANGED <<sheet, log_sheet, inputs, run, clicks, outcome, counters,
                   writes, prev>>

\* lines 240-243: the worksheet has no row at all
StopEmptySheet ==
    /\ pc = "start"
    /\ key \in new_cols
    /\ key \in ExistingColumns(sheet, new_cols)
    /\ sheet = <<>>
    /\ pc' = "stopped"
    /\ halt' = "empty_sheet"
    /\ UNCHANGED <<sheet, log_sheet, inputs, run, clicks, outcome, counters,
                   writes, prev>>

\* lines 245-305 when line 293 raises IndexError, nothing catches it
RaiseIndexError ==
    /\ pc = "start"
    /\ key \in new_cols
    /\ key \in ExistingColumns(sheet, new_cols)
    /\ sheet # <<>>
    /\ UpdateLoop(sheet, df_new, key, cols_to_sync,
                  ExistingKeyToRow(sheet, key), 1).raised
    /\ pc' = "crashed"
    /\ halt' = "index_error"
    /\ UNCHANGED <<sheet, log_sheet, inputs, run, clicks, outcome, counters,
                   writes, prev>>

\* lines 223-321: the dry run reaches its preview
Reconcile ==
    /\ pc = "start"
    /\ key \in new_cols
    /\ key \in ExistingColumns(sheet, new_cols)
    /\ sheet # <<>>
    /\ LET index == ExistingKeyToRow(sheet, key)
           loop  == UpdateLoop(sheet, df_new, key, cols_to_sync, index, 1)
       IN  /\ ~loop.raised
           /\ raw' = sheet
           /\ existing_key_to_row' = index
           /\ df_to_insert' = DfToInsert(df_new, key, cols_to_sync, index, 1)
           /\ update_rows' = loop.rows
           /\ unchanged_count' = loop.unchanged
    /\ pc' = "preview"
    /\ UNCHANGED <<sheet, log_sheet, inputs, halt, run, clicks, counters,
                   writes, prev>>

\* lines 324-345, the button is pressed: step 8a
ApplyInserts ==
    /\ pc = "preview"
    /\ clicks < MaxClicks
    /\ clicks' = clicks + 1
    /\ pc' = "updates"
    /\ upd_i' = 1
    /\ updated' = 0
    /\ \/ /\ DfEmpty(df_to_insert, cols_to_sync)
          /\ UNCHANGED <<sheet, added, errors, writes>>
       \/ /\ ~DfEmpty(df_to_insert, cols_to_sync)
          /\ sheet' = AppendRows(sheet, InsertRows(df_to_insert, raw[1]))
          /\ added' = Len(InsertRows(df_to_insert, raw[1]))
          /\ writes' = Append(writes, [op |-> "append", rownum |-> 0, ok |-> TRUE])
          /\ UNCHANGED errors
       \/ /\ ~DfEmpty(df_to_insert, cols_to_sync)
          /\ errors' = Append(errors, <<"Insert error">>)
          /\ writes' = Append(writes, [op |-> "append", rownum |-> 0, ok |-> FALSE])
          /\ UNCHANGED <<sheet, added>>
    /\ UNCHANGED <<log_sheet, inputs, halt, run, outcome, prev>>

\* mutant of ApplyUpdate: a failed row write ends the loop
ApplyUpdateAborting ==
    /\ pc = "updates"
    /\ upd_i <= Len(update_rows)
    /\ LET rownum   == update_rows[upd_i].rownum
           full_row == Pad(update_rows[upd_i].row, Len(raw[1]))
       IN  \/ /\ sheet' = UpdateRange(sheet, rownum, full_row)
              /\ updated' = updated + 1
              /\ upd_i' = upd_i + 1
              /\ writes' = Append(writes, [op |-> "update", rownum |-> rownum,
                                           ok |-> TRUE])
              /\ UNCHANGED errors
           \/ /\ errors' = Append(errors, <<"Update row error", rownum>>)
              /\ upd_i' = Len(update_rows) + 1
              /\ writes' = Append(writes, [op |-> "update", rownum |-> rownum,
                                           ok |-> FALSE])
              /\ UNCHANGED <<sheet, updated>>
    /\ UNCHANGED <<log_sheet, inputs, pc, halt, run, clicks, outcome, added, prev>>

\* lines 349-368, one turn of the loop of step 8b
ApplyUpdate ==
    /\ pc = "updates"
    /\ upd_i <= Len(update_rows)
    /\ upd_i' = upd_i + 1
    /\ LET rownum   == update_rows[upd_i].rownum
           full_row == Pad(update_rows[upd_i].row, Len(raw[1]))
       IN  \/ /\ sheet' = UpdateRange(sheet, rownum, full_row)
              /\ updated' = updated + 1
              /\ writes' = Append(writes, [op |-> "update", rownum |-> rownum,
                                           ok |-> TRUE])
              /\ UNCHANGED errors
           \/ /\ errors' = Append(errors, <<"Update row error", rownum>>)
              /\ writes' = Append(writes, [op |-> "update", rownum |-> rownum,
                                           ok |-> FALSE])
              /\ UNCHANGED <<sheet, updated>>
    /\ UNCHANGED <<log_sheet, inputs, pc, halt, run, clicks, outcome, added, prev>>

\* lines 372-401: step 8c and the final summary
WriteLog ==
    /\ pc = "updates"
    /\ upd_i > Len(update_rows)
    /\ pc' = "summary"
    /\ \/ /\ log_toggle' = FALSE
          /\ UNCHANGED <<log_sheet, writes>>
       \/ /\ log_toggle' = TRUE
          /\ log_sheet' = Append(log_sheet, LogRow)
          /\ writes' = Append(writes, [op |-> "log", rownum |-> 0, ok |-> TRUE])
       \/ /\ log_toggle' = TRUE
          /\ writes' = Append(writes, [op |-> "log", rownum |-> 0, ok |-> FALSE])
          /\ UNCHANGED log_sheet
    /\ UNCHANGED <<sheet, df_new, new_cols, key, cols_to_sync, halt, run,
                   clicks, outcome, counters, prev>>

Failed(w) == \E i \in 1..Len(w) : w[i].op # "log" /\ ~w[i].ok

Appended(w) == \E i \in 1..Len(w) : w[i].op = "append" /\ w[i].ok

\* line 403: st.experimental_rerun() runs the script again from the top
Rerun ==
    /\ pc = "summary"
    /\ pc' = "start"
    /\ run' = run + 1
    /\ prev' = [ran     |-> TRUE,
                applied |-> /\ ~Failed(writes)
                            /\ Len(df_to_insert) > 0 => Appended(writes)]
    /\ log_toggle' = TRUE   \* the checkbox is read anew at line 383
    /\ raw' = <<>>
    /\ existing_key_to_row' = NoIndex
    /\ df_to_insert' = <<>>
    /\ update_rows' = <<>>
    /\ unchanged_count' = 0
    /\ added' = 0
    /\ updated' = 0
    /\ errors' = <<>>
    /\ upd_i' = 1
    /\ writes' = <<>>
    /\ UNCHANGED <<sheet, log_sheet, df_new, new_cols, key, cols_to_sync, halt,
                   clicks>>

Next ==
    \/ StopKeyMissing
    \/ RaiseKeyError
    \/ StopEmptySheet
    \/ RaiseIndexError
    \/ Reconcile
    \/ ApplyInserts
    \/ ApplyUpdate
    \/ WriteLog
    \/ Rerun

Spec == Init /\ [][Next]_vars

----------------------------------------------------------------------------
(* Properties                                                              *)

\* the run has computed its outcome (the preview, or later in the same run)
HasOutcome == pc \in {"preview", "updates", "summary"}

\* the match key of the i-th uploaded record
KeyOf(i) == MatchKey(df_new[i], key)

InsertSrcs == {df_to_insert[i].src : i \in 1..Len(df_to_insert)}

UpdateSrcs == {update_rows[i].src : i \in 1..Len(update_rows)}

NonEmptyKeyed == {i \in 1..Len(df_new) : KeyOf(i) # EmptyText}

\* the rows step 8a would append, as the worksheet shows them
InsertRowsText ==
    [i \in 1..Len(df_to_insert) |->
        RowText(InsertRowValues(df_to_insert[i].rec, raw[1]))]

\* C1 (idempotence): when a run's whole outcome was applied (the insert
\* batch appended, every update row written, nothing failed), the next run on
\* the same upload finds nothing to insert and nothing to update.
C1_Idempotence ==
    (pc = "preview" /\ prev.ran /\ prev.applied)
        => (df_to_insert = <<>> /\ update_rows = <<>>)

\* C2 (partition completeness): after a run, the Insert Set, the Update Set
\* and the Unchanged count together hold every record with a non-empty match
\* key exactly once: no record is both inserted and updated, and the three
\* sizes add up to the number of non-empty-keyed records.
C2_PartitionComplete ==
    HasOutcome =>
        /\ InsertSrcs \cap UpdateSrcs = {}
        /\ Len(df_to_insert) + Len(update_rows) + unchanged_count
              = Cardinality(NonEmptyKeyed)

\* C3 (empty-key exclusion): a record whose match key is empty is in neither
\* the Insert Set nor the Update Set, and is not counted unchanged.
C3_EmptyKeyExcluded ==
    HasOutcome =>
        /\ \A i \in InsertSrcs \cup UpdateSrcs : KeyOf(i) # EmptyText
        /\ unchanged_count <= Cardinality(NonEmptyKeyed \ (InsertSrcs \cup UpdateSrcs))

ScenarioA ==
    /\ run = 1
    /\ raw = A_Sheet
    /\ df_new = A_Upload
    /\ key = ID
    /\ cols_to_sync = {NAME, SCORE}

\* C4 (Scenario A): the run yields the one insert row ["3","Cara","30"], the
\* one update (3, ["2","Bob","25"]) and Unchanged = 0.
C4_ScenarioA ==
    (ScenarioA /\ HasOutcome) =>
        /\ InsertRowsText = <<<<<<"3">>, A_Cara, <<"3", "0">>>>>>
        /\ Len(update_rows) = 1
        /\ update_rows[1].rownum = 3
        /\ update_rows[1].row = <<T2, A_Bob, <<"2", "5">>>>
        /\ unchanged_count = 0

\* C5 (row width): no run stops on a row shorter than the header, and every
\* row of the Update Set is exactly as long as the header.
C5_RowWidth ==
    /\ halt # "index_error"
    /\ HasOutcome =>
          \A i \in 1..Len(update_rows) : Len(update_rows[i].row) = Len(raw[1])

\* the key column is missing from the upload, or from a non-empty header
KeyAbsent ==
    \/ key \notin new_cols
    \/ sheet # <<>> /\ sheet[1] # <<>> /\ key \notin Range(sheet[1])

\* C7 (validation before mutation): when the key column is missing from the
\* upload or from a non-empty target header, the run produces no outcome and
\* issues no append and no row write.
C7_ValidationBeforeMutation ==
    KeyAbsent =>
        /\ ~HasOutcome
        /\ writes = <<>>
        /\ df_to_insert = <<>>
        /\ update_rows = <<>>

\* C9 (empty-target bootstrap): on a target with no row at all the run does
\* not abort: it ends with every record in the Insert Set, no update and
\* Unchanged = 0.
C9_EmptyTargetBootstrap ==
    (sheet = <<>> /\ key \in new_cols /\ pc # "start") =>
        /\ pc = "preview"
        /\ Len(df_to_insert) = Len(df_new)
        /\ update_rows = <<>>
        /\ unchanged_count = 0

\* the cell at position p of a raw row, an absent trailing cell being empty
CellAt(row, p) == IF p <= Len(row) THEN row[p] ELSE EmptyText

\* position p of the header is a synced column whose new value is non-empty
\* and differs from the trimmed current cell
Overwritten(rec, orig, p) ==
    /\ raw[1][p] \in cols_to_sync
    /\ SvalNew(rec[raw[1][p]]) # EmptyText
    /\ SvalNew(rec[raw[1][p]]) # Strip(CellAt(orig, p))

\* C6 (update frame): in every row of the Update Set, a cell at a header
\* position is the trimmed new value where the column is synced and its new
\* value is non-empty and differs from the trimmed current cell, and is the
\* original target cell everywhere else.
C6_UpdateFrame ==
    HasOutcome =>
        \A i \in 1..Len(update_rows) :
            LET e    == update_rows[i]
                orig == raw[e.rownum]
                rec  == df_new[e.src]
            IN  \A p \in 1..Len(raw[1]) :
                    /\ p <= Len(e.row)
                    /\ e.row[p] = IF Overwritten(rec, orig, p)
                                  THEN SvalNew(rec[raw[1][p]])
                                  ELSE CellAt(orig, p)

\* an emitted row with an overwritten cell, a kept cell of a synced column
\* whose new value is missing, and a kept non-empty cell of an unsynced column
C6_Witness ==
    /\ pc = "preview"
    /\ \E i \in 1..Len(update_rows) :
          LET e    == update_rows[i]
              orig == raw[e.rownum]
              rec  == df_new[e.src]
          IN  /\ \E p \in 1..Len(raw[1]) : Overwritten(rec, orig, p)
              /\ \E p \in 1..Len(raw[1]) :
                    /\ raw[1][p] \in cols_to_sync
                    /\ IsNa(rec[raw[1][p]])
                    /\ e.row[p] = orig[p] /\ orig[p] # EmptyText
              /\ \E p \in 1..Len(raw[1]) :
                    /\ raw[1][p] \notin cols_to_sync
                    /\ e.row[p] = orig[p] /\ orig[p] # EmptyText

IsAppend(w) == w.op = "append"

IsUpdate(w) == w.op = "update"

IsLog(w) == w.op = "log"

Count(s, ok) == Cardinality({i \in 1..Len(s) : s[i].ok = ok})

UpdateErrors == Cardinality({i \in 1..Len(errors) : errors[i][1] = "Update row error"})

\* the j-th update attempt is the last successful write of its row
LastWrite(ups, j) ==
    /\ ups[j].ok
    /\ \A l \in (j + 1)..Len(ups) : ups[l].ok => ups[l].rownum # ups[j].rownum

TrimmedKeyAt(p) ==
    IF \E c \in 1..Len(raw[1]) : raw[1][c] = key
    THEN Strip(CellAt(raw[p], CHOOSE c \in 1..Len(raw[1]) : raw[1][c] = key))
    ELSE EmptyText

\* C10 (update targeting, last occurrence wins): the key index holds exactly
\* the non-empty trimmed key cells, each with the highest row that has it;
\* every Update Set entry for a record with match key k names a data row
\* whose key cell trims to k, and no row below it has that key.
C10_LastOccurrenceWins ==
    HasOutcome =>
        /\ DOMAIN existing_key_to_row
              = {TrimmedKeyAt(p) : p \in 2..Len(raw)} \ {EmptyText}
        /\ \A k \in DOMAIN existing_key_to_row :
              existing_key_to_row[k]
                  = Max({p \in 2..Len(raw) : TrimmedKeyAt(p) = k})
        /\ \A i \in 1..Len(update_rows) :
              LET p == update_rows[i].rownum
                  k == KeyOf(update_rows[i].src)
              IN  /\ 2 <= p /\ p <= Len(raw)
                  /\ TrimmedKeyAt(p) = k
                  /\ \A q \in (p + 1)..Len(raw) : TrimmedKeyAt(q) # k

\* an update aimed at the later of two rows with the same key
C10_Witness ==
    /\ pc = "preview"
    /\ \E i \in 1..Len(update_rows) :
          \E q \in 2..(update_rows[i].rownum - 1) :
              TrimmedKeyAt(q) = KeyOf(update_rows[i].src)

====
